---- MODULE Spec2Model ----
(***************************************************************************)
(* Brand Building Dashboard (app.py): the data-cleaning pipeline           *)
(* load_data / load_brand_strength, the three views (tab1, tab2, tab3)     *)
(* and the memoisation of the loaders, as a state machine over one         *)
(* browser session of the script.                                          *)
(*                                                                         *)
(* A text is a sequence of one-character strings, so that trimming, case   *)
(* folding, substring search and number parsing are computed character by  *)
(* character as the code computes them.                                    *)
(***************************************************************************)
EXTENDS Integers, Sequences, FiniteSets, TLC

VARIABLES
    file,      \* MarketingDashboardUpdated.xlsx: header row and cell texts
    bsfile,    \* BrandStrength.xlsx: header row and cell texts
    cache,     \* st.cache_data store of load_data(): <<>> or <<result>>
    bscache,   \* st.cache_data store of load_brand_strength()
    pc,        \* position of the script run
    cur,       \* the tuple unpacked at line 109 in the current run
    sel,       \* widget state of the session (st.sidebar.multiselect values)
    out,       \* what the views handed to the charting layer in this run
    nact       \* number of user interactions so far

vars == <<file, bsfile, cache, bscache, pc, cur, sel, out, nact>>

----------------------------------------------------------------------------
(* Characters and texts *)

Lowers == <<"a", "b", "c", "d", "e", "f", "g", "h", "i", "j", "k", "l", "m",
            "n", "o", "p", "q", "r", "s", "t", "u", "v", "w", "x", "y", "z">>

Uppers == <<"A", "B", "C", "D", "E", "F", "G", "H", "I", "J", "K", "L", "M",
            "N", "O", "P", "Q", "R", "S", "T", "U", "V", "W", "X", "Y", "Z">>

Digits == <<"0", "1", "2", "3", "4", "5", "6", "7", "8", "9">>

LowerSet == {Lowers[i] : i \in 1..Len(Lowers)}

UpperSet == {Uppers[i] : i \in 1..Len(Uppers)}

DigitSet == {Digits[i] : i \in 1..Len(Digits)}

\* the lower-case form of each upper-case letter, and the reverse
LowerTable == [c \in UpperSet |-> Lowers[CHOOSE i \in 1..Len(Uppers) : Uppers[i] = c]]

UpperTable == [c \in LowerSet |-> Uppers[CHOOSE i \in 1..Len(Lowers) : Lowers[i] = c]]

DigitTable == [c \in DigitSet |-> (CHOOSE i \in 1..Len(Digits) : Digits[i] = c) - 1]

IsLower(c) == c \in LowerSet

IsUpper(c) == c \in UpperSet

IsDigit(c) == c \in DigitSet

IsCased(c) == IsLower(c) \/ IsUpper(c)

IsWordChar(c) == IsCased(c) \/ IsDigit(c) \/ c = "_"

LowerChar(c) == IF IsUpper(c) THEN LowerTable[c] ELSE c

UpperChar(c) == IF IsLower(c) THEN UpperTable[c] ELSE c

DigitVal(c) == DigitTable[c]

\* str.lower()
str_lower(s) == [i \in 1..Len(s) |-> LowerChar(s[i])]

\* str.upper()
str_upper(s) == [i \in 1..Len(s) |-> UpperChar(s[i])]

\* str.strip(): leading and trailing whitespace removed
str_strip(s) ==
    LET keep == {i \in 1..Len(s) : s[i] # " "}
    IN  IF keep = {} THEN <<>>
        ELSE SubSeq(s, CHOOSE i \in keep : \A j \in keep : i <= j,
                       CHOOSE i \in keep : \A j \in keep : j <= i)

\* str.title(): a cased character is upper-cased when it does not follow a
\* cased character, lower-cased when it does
str_title(s) ==
    [i \in 1..Len(s) |->
        IF i > 1 /\ IsCased(s[i - 1]) THEN LowerChar(s[i]) ELSE UpperChar(s[i])]

\* k in x
Contains(k, x) ==
    LET s == x
    IN  \E i \in 1..(Len(s) - Len(k) + 1) : SubSeq(s, i, i + Len(k) - 1) = k

\* str.replace("%", "", regex=False): every occurrence removed
RECURSIVE RemoveChar(_, _)
RemoveChar(c, s) ==
    IF s = <<>> THEN <<>>
    ELSE IF Head(s) = c THEN RemoveChar(c, Tail(s))
    ELSE <<Head(s)>> \o RemoveChar(c, Tail(s))

\* the missing value (NaN / pd.NA / None in an object column)
NA == <<"<NA>">>

\* the None a resolver returns when no header matches
NoCol == <<"<None>">>

nan == <<"n", "a", "n">>

\* Series.astype(str): a missing cell becomes the text "nan"
astype_str(v) == IF v = NA THEN nan ELSE v

----------------------------------------------------------------------------
(* Value normalisation *)

s_instagram == <<"i", "n", "s", "t", "a", "g", "r", "a", "m">>
s_insta_mart == <<"i", "n", "s", "t", "a", "-", "m", "a", "r", "t">>
s_instamart == <<"i", "n", "s", "t", "a", "m", "a", "r", "t">>
s_blinkit == <<"b", "l", "i", "n", "k", "i", "t">>
s_zepto == <<"z", "e", "p", "t", "o">>
Blinkit == <<"B", "l", "i", "n", "k", "i", "t">>
Instamart == <<"I", "n", "s", "t", "a", "m", "a", "r", "t">>
Zepto == <<"Z", "e", "p", "t", "o">>

\* the allow-list of line 103, in the order the views iterate it
Platforms == <<Blinkit, Instamart, Zepto>>

\* the alias table without its "insta-mart" entry
platform_replace_one_alias(s) == IF s = s_instagram THEN s_instamart ELSE s

\* .replace({...}) of lines 43-47: whole-value replacement
platform_replace(s) ==
    IF s = s_instagram THEN s_instamart
    ELSE IF s = s_insta_mart THEN s_instamart
    ELSE s

\* .map({...}) of lines 48-52: a value outside the dict becomes missing
platform_map(s) ==
    IF s = s_blinkit THEN Blinkit
    ELSE IF s = s_instamart THEN Instamart
    ELSE IF s = s_zepto THEN Zepto
    ELSE NA

\* lines 42-53
normalize_platform(v) ==
    platform_map(platform_replace(str_lower(str_strip(astype_str(v)))))

\* lines 344-355, the same chain written again in load_brand_strength
bs_normalize_platform(v) ==
    platform_map(platform_replace(str_lower(str_strip(astype_str(v)))))

s_NaN == <<"N", "a", "N">>
s_None == <<"N", "o", "n", "e">>

\* lines 34-38
normalize_category(v) ==
    LET t == str_strip(astype_str(v))
    IN  IF t \in {nan, s_NaN, <<>>, s_None} THEN NA ELSE str_title(t)

s_branded == <<"b", "r", "a", "n", "d", "e", "d">>
s_brand == <<"b", "r", "a", "n", "d">>
Brand == <<"B", "r", "a", "n", "d">>

\* lines 57-61
normalize_keyword_type(v) ==
    LET t == str_lower(str_strip(astype_str(v)))
    IN  str_title(IF t = s_branded THEN s_brand ELSE t)

----------------------------------------------------------------------------
(* Metric conversion *)

\* what pd.to_numeric accepts among the texts the sheets hold here: an
\* optional sign and one or more decimal digits
IsNumeral(t) ==
    LET d == IF t # <<>> /\ Head(t) \in {"-", "+"} THEN Tail(t) ELSE t
    IN  d # <<>> /\ \A i \in 1..Len(d) : IsDigit(d[i])

RECURSIVE DigitsVal(_)
DigitsVal(d) ==
    IF d = <<>> THEN 0
    ELSE 10 * DigitsVal(SubSeq(d, 1, Len(d) - 1)) + DigitVal(d[Len(d)])

NumeralVal(t) ==
    IF Head(t) = "-" THEN 0 - DigitsVal(Tail(t))
    ELSE IF Head(t) = "+" THEN DigitsVal(Tail(t))
    ELSE DigitsVal(t)

\* the conversion with only a trailing "%" removed
convert_metric_suffix(v) ==
    LET s == astype_str(v)
        t == IF s # <<>> /\ s[Len(s)] = "%" THEN SubSeq(s, 1, Len(s) - 1) ELSE s
    IN  IF IsNumeral(t) THEN NumeralVal(t) ELSE 0

\* lines 75-78: astype(str), every "%" removed, to_numeric(errors="coerce"),
\* fillna(0)
convert_metric(v) ==
    LET t == RemoveChar("%", astype_str(v))
    IN  IF IsNumeral(t) THEN NumeralVal(t) ELSE 0

\* line 365, the same conversion in load_brand_strength
bs_convert_metric(v) ==
    LET t == RemoveChar("%", astype_str(v))
    IN  IF IsNumeral(t) THEN NumeralVal(t) ELSE 0

----------------------------------------------------------------------------
(* Month parsing *)

\* lines 81-84: the dict in insertion order
month_map == <<
    [k |-> <<"j", "a", "n">>, v |-> 1],
    [k |-> <<"f", "e", "b">>, v |-> 2],
    [k |-> <<"m", "a", "r">>, v |-> 3],
    [k |-> <<"a", "p", "r">>, v |-> 4],
    [k |-> <<"m", "a", "y">>, v |-> 5],
    [k |-> <<"j", "u", "n">>, v |-> 6],
    [k |-> <<"j", "u", "l">>, v |-> 7],
    [k |-> <<"a", "u", "g">>, v |-> 8],
    [k |-> <<"s", "e", "p">>, v |-> 9],
    [k |-> <<"o", "c", "t">>, v |-> 10],
    [k |-> <<"n", "o", "v">>, v |-> 11],
    [k |-> <<"d", "e", "c">>, v |-> 12] >>

\* return None of line 91
NoMonth == 0

\* the loop keeping the last entry that matches instead of returning the first
RECURSIVE month_scan_last(_, _)
month_scan_last(x, i) ==
    IF i > Len(month_map) THEN NoMonth
    ELSE LET later == month_scan_last(x, i + 1)
         IN  IF later # NoMonth THEN later
             ELSE IF Contains(month_map[i].k, x) THEN month_map[i].v
             ELSE NoMonth

\* the for loop of lines 88-90, from entry i on
RECURSIVE month_scan(_, _)
month_scan(x, i) ==
    IF i > Len(month_map) THEN NoMonth
    ELSE IF Contains(month_map[i].k, x) THEN month_map[i].v
    ELSE month_scan(x, i + 1)

\* lines 86-91
parse_month(v) == month_scan(str_lower(astype_str(v)), 1)

\* line 359: next((v for k, v in month_map.items() if k in str(x).lower()), None)
bs_parse_month(v) ==
    LET x == str_lower(astype_str(v))
        hit == {i \in 1..Len(month_map) : Contains(month_map[i].k, x)}
    IN  IF hit = {} THEN NoMonth
        ELSE month_map[CHOOSE i \in hit : \A j \in hit : i <= j].v

\* lines 94 and 360: MonthNum mapped through {v: k.title()}
month_name(n) ==
    IF \E i \in 1..Len(month_map) : month_map[i].v = n
    THEN str_title(month_map[CHOOSE i \in 1..Len(month_map) : month_map[i].v = n].k)
    ELSE NA

----------------------------------------------------------------------------
(* Data frames: a sequence of column labels and a sequence of rows, each  *)
(* row a sequence of cells aligned with the labels                        *)

HasCol(columns, c) == \E i \in 1..Len(columns) : columns[i] = c

\* position of label c (a KeyError when absent: the callers test HasCol)
ColIdx(columns, c) ==
    CHOOSE i \in 1..Len(columns) :
        columns[i] = c /\ \A j \in 1..(i - 1) : columns[j] # c

\* row[c]
Cell(columns, row, c) == row[ColIdx(columns, c)]

\* df[c] = df[c].<F>
MapCol(d, c, F(_)) ==
    LET i == ColIdx(d.columns, c)
    IN  [columns |-> d.columns,
         rows |-> [k \in 1..Len(d.rows) |->
                     [j \in 1..Len(d.columns) |->
                        IF j = i THEN F(d.rows[k][j]) ELSE d.rows[k][j]]]]

\* df[mask]: the rows satisfying Keep, in their order
FilterRows(rows, Keep(_)) == SelectSeq(rows, Keep)

\* Series.isin(values) on one row
IsIn(columns, row, c, values) == Cell(columns, row, c) \in values

\* Series.dropna().unique(), as the set the widgets sort
UniqueVals(columns, rows, c) ==
    {Cell(columns, rows[k], c) : k \in 1..Len(rows)} \ {NA}

\* Series.dropna().unique().tolist(): in order of first appearance
RECURSIVE UniqueList(_, _, _)
UniqueList(columns, rows, c) ==
    IF rows = <<>> THEN <<>>
    ELSE LET init == SubSeq(rows, 1, Len(rows) - 1)
             v == Cell(columns, rows[Len(rows)], c)
             u == UniqueList(columns, init, c)
         IN  IF v = NA \/ \E i \in 1..Len(u) : u[i] = v THEN u ELSE Append(u, v)

\* the cell texts pd.read_excel reads as missing (keep_default_na)
na_values == {
    <<>>,
    <<"#", "N", "/", "A">>,
    <<"N", "/", "A">>,
    <<"N", "A">>,
    <<"N", "U", "L", "L">>,
    <<"N", "a", "N">>,
    <<"N", "o", "n", "e">>,
    <<"n", "/", "a">>,
    <<"n", "a", "n">>,
    <<"n", "u", "l", "l">>,
    <<"<", "N", "A", ">">>,
    <<"#", "N", "A">>,
    <<"-", "N", "a", "N">>,
    <<"-", "n", "a", "n">> }

\* lines 21 and 334: pd.read_excel of a sheet given by its cell texts
read_excel(sheet) ==
    [columns |-> sheet.columns,
     rows |-> [k \in 1..Len(sheet.rows) |->
                 [j \in 1..Len(sheet.rows[k]) |->
                    IF sheet.rows[k][j] \in na_values THEN NA ELSE sheet.rows[k][j]]]]

----------------------------------------------------------------------------
(* Schema resolver *)

p_month == <<"m", "o", "n", "t", "h">>
p_region == <<"r", "e", "g", "i", "o", "n">>
p_category == <<"c", "a", "t", "e", "g", "o", "r", "y">>
p_platform == <<"p", "l", "a", "t", "f", "o", "r", "m">>
p_keyword_type == <<"k", "e", "y", "w", "o", "r", "d", " ", "t", "y", "p", "e">>
p_keyword == <<"k", "e", "y", "w", "o", "r", "d">>
p_volume_share == <<"v", "o", "l", "u", "m", "e", " ", "s", "h", "a", "r", "e">>
p_ad == <<"a", "d">>
p_org == <<"o", "r", "g">>
p_overall == <<"o", "v", "e", "r", "a", "l", "l">>
p_cat == <<"c", "a", "t">>
p_imp == <<"i", "m", "p">>
p_brand == <<"b", "r", "a", "n", "d">>
p_strength == <<"s", "t", "r", "e", "n", "g", "t", "h">>
p_all == <<"a", "l", "l">>

\* re.search(p, c, re.I) for a literal lower-case pattern p
re_search(p, c) == Contains(p, str_lower(c))

\* re.fullmatch(p, c.strip(), re.I) for a literal lower-case pattern p
re_fullmatch(p, c) == str_lower(str_strip(c)) = p

\* re.search(r"\bad", c, re.I)
re_search_word_ad(c) ==
    LET x == str_lower(c)
    IN  \E i \in 1..(Len(x) - 1) :
           /\ SubSeq(x, i, i + 1) = p_ad
           /\ (i = 1 \/ ~IsWordChar(x[i - 1]))

\* re.search(p + ".*" + q, c, re.I)
re_search_then(p, q, c) ==
    LET x == str_lower(c)
    IN  \E i \in 1..(Len(x) - Len(p) + 1) :
           /\ SubSeq(x, i, i + Len(p) - 1) = p
           /\ \E j \in (i + Len(p))..(Len(x) - Len(q) + 1) :
                 SubSeq(x, j, j + Len(q) - 1) = q

\* next((c for c in df.columns if <Match>), None)
first_match(columns, Match(_)) ==
    LET hit == {i \in 1..Len(columns) : Match(columns[i])}
    IN  IF hit = {} THEN NoCol
        ELSE columns[CHOOSE i \in hit : \A j \in hit : i <= j]

\* the keys of the metrics dict (lines 64-70), in insertion order
MetricNames == <<"Volume Share", "Ad SOV", "Org. SOV", "Overall SOV", "Cat. Imp. Share">>

\* lines 64-70
detect_metrics(columns) ==
    [m \in {MetricNames[i] : i \in 1..Len(MetricNames)} |->
        CASE m = "Volume Share" -> first_match(columns, LAMBDA c : re_search(p_volume_share, c))
          [] m = "Ad SOV" -> first_match(columns, re_search_word_ad)
          [] m = "Org. SOV" -> first_match(columns, LAMBDA c : re_search(p_org, c))
          [] m = "Overall SOV" -> first_match(columns, LAMBDA c : re_search(p_overall, c))
          [] m = "Cat. Imp. Share" -> first_match(columns, LAMBDA c : re_search_then(p_cat, p_imp, c))]

----------------------------------------------------------------------------
(* load_data *)

MonthNumCol == <<"M", "o", "n", "t", "h", "N", "u", "m">>
MonthNameCol == <<"M", "o", "n", "t", "h", "N", "a", "m", "e">>

NoMetrics == [m \in {MetricNames[i] : i \in 1..Len(MetricNames)} |-> NoCol]

\* the run of load_data ended in a KeyError: nothing is returned
LoadRaised ==
    [raised |-> TRUE, df |-> [columns |-> <<>>, rows |-> <<>>],
     region_col |-> NoCol, category_col |-> NoCol, platform_col |-> NoCol,
     keyword_type_col |-> NoCol, keyword_col |-> NoCol, metrics |-> NoMetrics]

\* lines 73-78: the loop over metrics.values(), from entry i on; a column two
\* metrics resolve to is numeric already the second time and keeps its values
RECURSIVE convert_metric_cols(_, _, _, _)
convert_metric_cols(d, metrics, i, seen) ==
    IF i > Len(MetricNames) THEN d
    ELSE LET col == metrics[MetricNames[i]]
         IN  IF HasCol(d.columns, col) /\ col \notin seen
             THEN convert_metric_cols(MapCol(d, col, convert_metric), metrics,
                                      i + 1, seen \cup {col})
             ELSE convert_metric_cols(d, metrics, i + 1, seen)

\* lines 93-94: the two derived columns, appended
add_month_cols(d, month_col) ==
    [columns |-> d.columns \o <<MonthNumCol, MonthNameCol>>,
     rows |-> [k \in 1..Len(d.rows) |->
                 LET n == parse_month(Cell(d.columns, d.rows[k], month_col))
                 IN  d.rows[k] \o <<n, month_name(n)>>]]

\* the match of line 99 made case-sensitive
keyword_is_all_cased(v) == astype_str(v) = p_all

\* line 99: .astype(str).str.fullmatch("all", case=False, na=False)
keyword_is_all(v) == str_lower(astype_str(v)) = p_all

\* the window of line 100 opened one month early
month_in_window_from_march(n) == n >= 3

\* line 100: df["MonthNum"] >= 4
month_in_window(n) == n >= 4

\* line 103: isin(["Blinkit", "Instamart", "Zepto"])
platform_allowed(v) == \E i \in 1..Len(Platforms) : Platforms[i] = v

\* lines 20-105
load_data(f) ==
    LET raw == read_excel(f)
        columns == [i \in 1..Len(raw.columns) |-> str_strip(raw.columns[i])]
        d0 == [columns |-> columns, rows |-> raw.rows]
        month_col == first_match(columns, LAMBDA c : re_search(p_month, c))
        region_col == first_match(columns, LAMBDA c : re_search(p_region, c))
        category_col == first_match(columns, LAMBDA c : re_fullmatch(p_category, c))
        platform_col == first_match(columns, LAMBDA c : re_search(p_platform, c))
        keyword_type_col == first_match(columns, LAMBDA c : re_search(p_keyword_type, c))
        keyword_col == first_match(columns, LAMBDA c : re_fullmatch(p_keyword, c))
        d1 == IF category_col # NoCol
              THEN MapCol(d0, category_col, normalize_category) ELSE d0
        d2 == IF platform_col # NoCol
              THEN MapCol(d1, platform_col, normalize_platform) ELSE d1
        d3 == IF keyword_type_col # NoCol
              THEN MapCol(d2, keyword_type_col, normalize_keyword_type) ELSE d2
        metrics == detect_metrics(d3.columns)
        d4 == convert_metric_cols(d3, metrics, 1, {})
    IN  IF month_col = NoCol THEN LoadRaised          \* df[None], line 93
        ELSE
        LET d5 == add_month_cols(d4, month_col)
            cols == d5.columns
            r6 == FilterRows(d5.rows, LAMBDA r : Cell(cols, r, MonthNumCol) # NoMonth)
            r7 == IF keyword_col # NoCol
                  THEN FilterRows(r6, LAMBDA r : ~keyword_is_all(Cell(cols, r, keyword_col)))
                  ELSE r6
            r8 == FilterRows(r7, LAMBDA r : month_in_window(Cell(cols, r, MonthNumCol)))
        IN  IF platform_col = NoCol THEN LoadRaised   \* df[None], line 103
            ELSE
            [raised |-> FALSE,
             df |-> [columns |-> cols,
                     rows |-> FilterRows(r8, LAMBDA r :
                                platform_allowed(Cell(cols, r, platform_col)))],
             region_col |-> region_col, category_col |-> category_col,
             platform_col |-> platform_col, keyword_type_col |-> keyword_type_col,
             keyword_col |-> keyword_col, metrics |-> metrics]

----------------------------------------------------------------------------
(* load_brand_strength *)

BsRaised ==
    [raised |-> TRUE, df |-> [columns |-> <<>>, rows |-> <<>>],
     region_col |-> NoCol, category_col |-> NoCol, platform_col |-> NoCol,
     bs_col |-> NoCol]

\* lines 359-360
bs_add_month_cols(d, month_col) ==
    [columns |-> d.columns \o <<MonthNumCol, MonthNameCol>>,
     rows |-> [k \in 1..Len(d.rows) |->
                 LET n == bs_parse_month(Cell(d.columns, d.rows[k], month_col))
                 IN  d.rows[k] \o <<n, month_name(n)>>]]

\* line 362: df_bs["MonthNum"] >= 4
bs_month_in_window(n) == n >= 4

\* lines 333-367
load_brand_strength(f) ==
    LET raw == read_excel(f)
        columns == [i \in 1..Len(raw.columns) |-> str_strip(raw.columns[i])]
        d0 == [columns |-> columns, rows |-> raw.rows]
        region_col == first_match(columns, LAMBDA c : re_search(p_region, c))
        category_col == first_match(columns, LAMBDA c : re_search(p_category, c))
        platform_col == first_match(columns, LAMBDA c : re_search(p_platform, c))
        month_col == first_match(columns, LAMBDA c : re_search(p_month, c))
        bs_col == first_match(columns, LAMBDA c : re_search_then(p_brand, p_strength, c))
    IN  IF platform_col = NoCol \/ month_col = NoCol \/ bs_col = NoCol
        THEN BsRaised                                 \* df_bs[None]
        ELSE
        LET d1 == MapCol(d0, platform_col, bs_normalize_platform)
            d2 == bs_add_month_cols(d1, month_col)
            cols == d2.columns
            r3 == FilterRows(d2.rows, LAMBDA r : Cell(cols, r, MonthNumCol) # NoMonth)
            r4 == FilterRows(r3, LAMBDA r : bs_month_in_window(Cell(cols, r, MonthNumCol)))
            d5 == MapCol([columns |-> cols, rows |-> r4], bs_col, bs_convert_metric)
        IN  [raised |-> FALSE, df |-> d5,
             region_col |-> region_col, category_col |-> category_col,
             platform_col |-> platform_col, bs_col |-> bs_col]

----------------------------------------------------------------------------
(* Aggregation *)

RECURSIVE SeqSum(_)
SeqSum(s) == IF s = <<>> THEN 0 ELSE Head(s) + SeqSum(Tail(s))

\* Series.mean() of a non-empty numeric column, as the fraction num/den
Mean(s) == [num |-> SeqSum(s), den |-> Len(s)]

\* the literal 0 of line 173, as a fraction
Zero == [num |-> 0, den |-> 1]

\* the values of column c over rows
ColVals(columns, rows, c) == [k \in 1..Len(rows) |-> Cell(columns, rows[k], c)]

\* the window of line 172 reaching into July
in_q1_through_july(n) == 4 <= n /\ n <= 7

\* line 172: data_kw["MonthNum"].between(4, 6), both ends included
in_q1(n) == 4 <= n /\ n <= 6

\* lines 172-173: the Q1 benchmark of column vol_col over the rows data_kw
q1_benchmark(columns, data_kw, vol_col) ==
    LET q1df == FilterRows(data_kw, LAMBDA r : in_q1(Cell(columns, r, MonthNumCol)))
    IN  IF q1df # <<>> THEN Mean(ColVals(columns, q1df, vol_col)) ELSE Zero

\* the group keys of groupby(["MonthName", "MonthNum", key_col]): rows with a
\* missing key are left out (dropna=True)
group_keys(columns, rows, key_col) ==
    {[MonthName |-> Cell(columns, rows[k], MonthNameCol),
      MonthNum |-> Cell(columns, rows[k], MonthNumCol),
      key |-> Cell(columns, rows[k], key_col)] :
        k \in {j \in 1..Len(rows) : Cell(columns, rows[j], key_col) # NA}}

\* lines 177-178 and 407-408: groupby(...)[val_col].mean().reset_index()
group_means(columns, rows, key_col, val_col) ==
    {[MonthName |-> g.MonthName, MonthNum |-> g.MonthNum, key |-> g.key,
      value |-> Mean(ColVals(columns,
                   FilterRows(rows, LAMBDA r :
                       /\ Cell(columns, r, MonthNameCol) = g.MonthName
                       /\ Cell(columns, r, MonthNumCol) = g.MonthNum
                       /\ Cell(columns, r, key_col) = g.key),
                   val_col))] :
        g \in group_keys(columns, rows, key_col)}

\* .sort_values("MonthNum") of a frame given as the set G of its rows: the
\* default sort is not stable, so rows of one month come in any order
RECURSIVE sort_values_month(_)
sort_values_month(G) ==
    IF G = {} THEN {<<>>}
    ELSE LET first == {g \in G : \A h \in G : g.MonthNum <= h.MonthNum}
         IN  UNION {{<<g>> \o rest : rest \in sort_values_month(G \ {g})} : g \in first}

\* .sort_values("MonthNum") of the rows at the positions I (rows may repeat)
RECURSIVE sort_rows_month(_, _, _)
sort_rows_month(columns, rows, I) ==
    IF I = {} THEN {<<>>}
    ELSE LET n(i) == Cell(columns, rows[i], MonthNumCol)
             first == {i \in I : \A j \in I : n(i) <= n(j)}
         IN  UNION {{<<rows[i]>> \o rest :
                        rest \in sort_rows_month(columns, rows, I \ {i})} : i \in first}

\* the trend with the sort of line 178 left out: the groups in any order
series_trend_unsorted(columns, rows, key_col, val_col) ==
    LET G == group_means(columns, rows, key_col, val_col)
    IN  {s \in UNION {[1..Cardinality(G) -> G]} :
            \A g \in G : \E i \in 1..Cardinality(G) : s[i] = g}

\* lines 176-179: the trend frames tab1 may hand to px.line
series_trend(columns, rows, key_col, val_col) ==
    sort_values_month(group_means(columns, rows, key_col, val_col))

----------------------------------------------------------------------------
(* Dataset filter *)

\* the filter applied without the test for an empty selection
apply_filter_unguarded(columns, rows, c, selection) ==
    FilterRows(rows, LAMBDA r : IsIn(columns, r, c, selection))

\* if selection: frame = frame[frame[c].isin(selection)]
apply_filter(columns, rows, c, selection) ==
    IF selection # {}
    THEN FilterRows(rows, LAMBDA r : IsIn(columns, r, c, selection))
    ELSE rows

\* lines 150-159
tab1_filter(c, s) ==
    LET cols == c.df.columns
        f1 == apply_filter(cols, c.df.rows, c.region_col, s.t1_region)
        f2 == apply_filter(cols, f1, c.category_col, s.t1_category)
    IN  apply_filter(cols, f2, c.platform_col, s.t1_platform)

\* lines 260-266
tab2_base_kw(c, s) ==
    LET cols == c.df.columns
        f1 == apply_filter(cols, c.df.rows, c.region_col, s.t2_region)
        f2 == apply_filter(cols, f1, c.category_col, s.t2_category)
    IN  apply_filter(cols, f2, c.keyword_type_col, s.t2_kwtype)

\* lines 285-293
tab2_filter(c, s, selected_keywords) ==
    LET cols == c.df.columns
        f1 == apply_filter(cols, c.df.rows, c.region_col, s.t2_region)
        f2 == apply_filter(cols, f1, c.category_col, s.t2_category)
        f3 == apply_filter(cols, f2, c.keyword_type_col, s.t2_kwtype)
    IN  apply_filter(cols, f3, c.keyword_col, selected_keywords)

\* lines 390-394
tab3_filter(b, s) ==
    LET cols == b.df.columns
        f1 == apply_filter(cols, b.df.rows, b.region_col, s.t3_region)
    IN  apply_filter(cols, f1, b.category_col, s.t3_category)

----------------------------------------------------------------------------
(* The three views *)

SetOfSeq(s) == {s[i] : i \in 1..Len(s)}

T1Raised == [raised |-> TRUE, filtered |-> <<>>, charts |-> <<>>]

\* lines 167-229, one pass of the loop body: the charts it may draw
tab1_chart(c, filtered, kw_type) ==
    LET cols == c.df.columns
        vol_col == c.metrics["Volume Share"]
        data_kw == FilterRows(filtered, LAMBDA r :
                       Cell(cols, r, c.keyword_type_col) = kw_type)
    IN  {[kw_type |-> kw_type,
          benchmark |-> q1_benchmark(cols, data_kw, vol_col),
          trend |-> t,
          keywords |-> UniqueVals(cols, data_kw, c.keyword_col)] :
            t \in series_trend(cols, data_kw, c.region_col, vol_col)}

\* the loop of line 165 over the keyword types kws
RECURSIVE tab1_charts(_, _, _)
tab1_charts(c, filtered, kws) ==
    IF kws = <<>> THEN {<<>>}
    ELSE {<<ch>> \o rest : ch \in tab1_chart(c, filtered, Head(kws)),
                           rest \in tab1_charts(c, filtered, Tail(kws))}

\* lines 124-229: the outcomes of the first view on the tuple c of line 109
\* under the widget state s; indexing a frame with None is a KeyError
tab1(c, s) ==
    IF c.region_col = NoCol            \* line 132
       \/ c.category_col = NoCol       \* line 138
       \/ c.keyword_type_col = NoCol   \* line 163
    THEN {T1Raised}
    ELSE LET filtered == tab1_filter(c, s)
             keyword_types == UniqueList(c.df.columns, filtered, c.keyword_type_col)
         IN  IF keyword_types # <<>>
                /\ (c.metrics["Volume Share"] = NoCol   \* line 177
                    \/ c.keyword_col = NoCol)            \* line 216
             THEN {T1Raised}
             ELSE {[raised |-> FALSE, filtered |-> filtered, charts |-> ch] :
                      ch \in tab1_charts(c, filtered, keyword_types)}

T2Raised ==
    [raised |-> TRUE, kw_choices |-> {}, selected_keywords |-> {},
     filtered |-> <<>>, no_data |-> FALSE, warned |-> {}, charts |-> {}]

\* lines 302-326 for the platforms from position i on: the sets of charts the
\* loops may draw; each platform's frame is sorted once per metric, by the same
\* sort on the same rows
RECURSIVE tab2_charts(_, _, _, _)
tab2_charts(c, filtered, selected_metrics, i) ==
    IF i > Len(Platforms) THEN {{}}
    ELSE LET cols == c.df.columns
             pf == FilterRows(filtered, LAMBDA r :
                       Cell(cols, r, c.platform_col) = Platforms[i])
             rest == tab2_charts(c, filtered, selected_metrics, i + 1)
         IN  IF pf = <<>> THEN rest
             ELSE {{[platform |-> Platforms[i], metric |-> m,
                     y |-> c.metrics[m], color |-> c.keyword_col,
                     df_plot |-> o] : m \in selected_metrics} \cup more :
                        o \in sort_rows_month(cols, pf, 1..Len(pf)), more \in rest}

\* the value of the keyword multiselect (lines 269-273): the stored selection
\* while the options are those it was made from; after the options change the
\* widget keeps the still-valid part or falls back to its empty default
tab2_selected_keywords(s, kw_choices) ==
    IF kw_choices = s.t2_kw_options THEN {s.t2_keywords}
    ELSE {s.t2_keywords \cap kw_choices, {}}

\* lines 234-326
tab2(c, s) ==
    IF c.region_col = NoCol            \* line 242
       \/ c.category_col = NoCol       \* line 248
       \/ c.keyword_type_col = NoCol   \* line 254
    THEN {T2Raised}
    ELSE
    LET cols == c.df.columns
    IN  IF Brand \notin UniqueVals(cols, c.df.rows, c.keyword_type_col)
        THEN {T2Raised}                \* line 255: the default is no option
        ELSE IF c.keyword_col = NoCol THEN {T2Raised}   \* line 268
        ELSE
        LET kw_choices == UniqueVals(cols, tab2_base_kw(c, s), c.keyword_col)
        IN  UNION {
              LET filtered == tab2_filter(c, s, k)
              IN  IF filtered = <<>>
                  THEN {[raised |-> FALSE, kw_choices |-> kw_choices,
                         selected_keywords |-> k, filtered |-> filtered,
                         no_data |-> TRUE, warned |-> {}, charts |-> {}]}
                  ELSE {[raised |-> FALSE, kw_choices |-> kw_choices,
                         selected_keywords |-> k, filtered |-> filtered,
                         no_data |-> FALSE,
                         warned |-> {Platforms[i] : i \in
                                       {j \in 1..Len(Platforms) :
                                          \A n \in 1..Len(filtered) :
                                             Cell(cols, filtered[n], c.platform_col)
                                                # Platforms[j]}},
                         charts |-> ch] :
                            ch \in tab2_charts(c, filtered, s.t2_metrics, 1)} :
              k \in tab2_selected_keywords(s, kw_choices)}

T3Raised == [raised |-> TRUE, filtered |-> <<>>, no_data |-> FALSE, charts |-> {}]

\* lines 399-425 for the platforms from position i on
RECURSIVE tab3_charts(_, _, _)
tab3_charts(b, filtered, i) ==
    IF i > Len(Platforms) THEN {{}}
    ELSE LET cols == b.df.columns
             pf == FilterRows(filtered, LAMBDA r :
                       Cell(cols, r, b.platform_col) = Platforms[i])
             rest == tab3_charts(b, filtered, i + 1)
         IN  IF pf = <<>> THEN rest
             ELSE {{[platform |-> Platforms[i], trend |-> t]} \cup more :
                      t \in series_trend(cols, pf, b.region_col, b.bs_col),
                      more \in rest}

\* lines 370-425, on the tuple b that load_brand_strength returned
tab3(b, s) ==
    IF b.raised                        \* line 373
       \/ b.region_col = NoCol         \* line 379
       \/ b.category_col = NoCol       \* line 385
    THEN {T3Raised}
    ELSE LET filtered == tab3_filter(b, s)
         IN  IF filtered = <<>>
             THEN {[raised |-> FALSE, filtered |-> filtered, no_data |-> TRUE,
                    charts |-> {}]}
             ELSE {[raised |-> FALSE, filtered |-> filtered, no_data |-> FALSE,
                    charts |-> ch] : ch \in tab3_charts(b, filtered, 1)}

----------------------------------------------------------------------------
(* The sheets a session may start from *)

\* header row of the marketing sheet
MarketingHeader == <<<<"M", "o", "n", "t", "h">>, <<"R", "e", "g", "i", "o", "n">>, <<"C", "a", "t", "e", "g", "o", "r", "y">>, <<"P", "l", "a", "t", "f", "o", "r", "m", " ">>, <<"K", "e", "y", "w", "o", "r", "d", " ", "T", "y", "p", "e">>, <<"K", "e", "y", "w", "o", "r", "d">>, <<"V", "o", "l", "u", "m", "e", " ", "S", "h", "a", "r", "e">>, <<"A", "d", " ", "S", "O", "V">>, <<"O", "r", "g", ".", " ", "S", "O", "V">>, <<"O", "v", "e", "r", "a", "l", "l", " ", "S", "O", "V">>, <<"C", "a", "t", ".", " ", "I", "m", "p", ".", " ", "S", "h", "a", "r", "e">>>>

\* header row of the brand-strength sheet
BrandStrengthHeader == <<<<"M", "o", "n", "t", "h">>, <<"R", "e", "g", "i", "o", "n">>, <<"C", "a", "t", "e", "g", "o", "r", "y">>, <<"P", "l", "a", "t", "f", "o", "r", "m">>, <<"B", "r", "a", "n", "d", " ", "S", "t", "r", "e", "n", "g", "t", "h">>>>

\* the metric cells every sample row carries besides Volume Share
OtherMetricCells == <<<<"5", "%">>, <<"7">>, <<"1", "2", "%">>, NA>>

\* an observation <<month, region, category, platform, keyword type, keyword,
\* share>> as a row of the marketing sheet
MarketingRow(o) == o \o OtherMetricCells

\* the same observation as a row of the brand-strength sheet
BrandStrengthRow(o) == <<o[1], o[2], o[3], o[4], o[7]>>

\* the index sets of the subsequences of a table with at most n rows
Picks(tbl, n) == {I \in SUBSET (1..Len(tbl)) : Cardinality(I) <= n}

RECURSIVE SubTable(_, _, _)
SubTable(tbl, I, i) ==
    IF i > Len(tbl) THEN <<>>
    ELSE (IF i \in I THEN <<tbl[i]>> ELSE <<>>) \o SubTable(tbl, I, i + 1)

MarketingSheet(obs) ==
    [columns |-> MarketingHeader,
     rows |-> [k \in 1..Len(obs) |-> MarketingRow(obs[k])]]

BrandStrengthSheet(obs) ==
    [columns |-> BrandStrengthHeader,
     rows |-> [k \in 1..Len(obs) |-> BrandStrengthRow(obs[k])]]

\* the sheet without the column headed h
DropColumn(sheet, h) ==
    LET keep == {i \in 1..Len(sheet.columns) : sheet.columns[i] # h}
        Pick(s) == SubTable(s, keep, 1)
    IN  [columns |-> Pick(sheet.columns),
         rows |-> [k \in 1..Len(sheet.rows) |-> Pick(sheet.rows[k])]]

\* observations with every kind of month, platform and keyword cell
SampleTable == <<
    <<<<"A", "p", "r", "i", "l", "-", "2", "0", "2", "4">>, <<"N", "o", "r", "t", "h">>, <<"s", "n", "a", "c", "k", "s">>, <<"B", "l", "i", "n", "k", "i", "t">>, <<"B", "r", "a", "n", "d">>, <<"c", "h", "i", "p", "s">>, <<"1", "0", "%">>>>,
    <<<<"M", "a", "y">>, <<"S", "o", "u", "t", "h">>, <<"S", "w", "e", "e", "t", "s">>, <<"i", "n", "s", "t", "a", "g", "r", "a", "m">>, <<"G", "e", "n", "e", "r", "i", "c">>, <<"A", "L", "L">>, <<"2", "0", "%">>>>,
    <<<<"O", "c", "t", "o", "b", "e", "r">>, <<"N", "o", "r", "t", "h">>, <<"S", "w", "e", "e", "t", "s">>, <<"Z", "e", "p", "t", "o">>, <<"b", "r", "a", "n", "d", "e", "d">>, <<"n", "a", "m", "k", "e", "e", "n">>, <<"1", "5", "0", "%">>>>,
    <<<<"x", "y", "z">>, <<"S", "o", "u", "t", "h">>, <<"s", "n", "a", "c", "k", "s">>, <<"B", "l", "i", "n", "k", "i", "t">>, <<"B", "r", "a", "n", "d">>, <<"c", "h", "i", "p", "s">>, <<"5">>>>,
    <<<<"J", "u", "n", " ", "2", "4">>, <<"S", "o", "u", "t", "h">>, <<"s", "n", "a", "c", "k", "s">>, <<"A", "m", "a", "z", "o", "n">>, <<"B", "r", "a", "n", "d">>, <<"c", "h", "i", "p", "s">>, <<"3", "0", "%">>>>,
    <<<<"M", "a", "r">>, <<"N", "o", "r", "t", "h">>, <<"S", "w", "e", "e", "t", "s">>, <<"Z", "e", "p", "t", "o">>, <<"B", "r", "a", "n", "d">>, <<"n", "a", "m", "k", "e", "e", "n">>, <<"7", "%">>>>,
    <<<<"J", "U", "L", "Y">>, <<"S", "o", "u", "t", "h">>, <<"S", "w", "e", "e", "t", "s">>, <<" ", "z", "e", "p", "t", "o", " ">>, <<"G", "e", "n", "e", "r", "i", "c">>, <<"n", "a", "m", "k", "e", "e", "n">>, <<"N", "/", "A">>>>,
    <<<<"S", "e", "p">>, NA, NA, <<"I", "n", "s", "t", "a", "-", "M", "a", "r", "t">>, <<"B", "r", "a", "n", "d">>, <<"a", "l", "l">>, <<"4", "0", "%">>>> >>

\* observations of one quarter and the month after it, with repeated
\* (month, region) pairs
AggTable == <<
    <<<<"A", "p", "r">>, <<"N", "o", "r", "t", "h">>, <<"S", "n", "a", "c", "k", "s">>, <<"B", "l", "i", "n", "k", "i", "t">>, <<"B", "r", "a", "n", "d">>, <<"c", "h", "i", "p", "s">>, <<"1", "0">>>>,
    <<<<"M", "a", "y">>, <<"N", "o", "r", "t", "h">>, <<"S", "n", "a", "c", "k", "s">>, <<"B", "l", "i", "n", "k", "i", "t">>, <<"B", "r", "a", "n", "d">>, <<"c", "h", "i", "p", "s">>, <<"2", "0">>>>,
    <<<<"J", "u", "n">>, <<"N", "o", "r", "t", "h">>, <<"S", "n", "a", "c", "k", "s">>, <<"B", "l", "i", "n", "k", "i", "t">>, <<"B", "r", "a", "n", "d">>, <<"c", "h", "i", "p", "s">>, <<"3", "0">>>>,
    <<<<"J", "u", "l">>, <<"N", "o", "r", "t", "h">>, <<"S", "n", "a", "c", "k", "s">>, <<"B", "l", "i", "n", "k", "i", "t">>, <<"B", "r", "a", "n", "d">>, <<"c", "h", "i", "p", "s">>, <<"9", "9">>>>,
    <<<<"A", "p", "r">>, <<"N", "o", "r", "t", "h">>, <<"S", "n", "a", "c", "k", "s">>, <<"B", "l", "i", "n", "k", "i", "t">>, <<"B", "r", "a", "n", "d">>, <<"n", "a", "m", "k", "e", "e", "n">>, <<"2", "5">>>>,
    <<<<"J", "u", "n">>, <<"S", "o", "u", "t", "h">>, <<"S", "n", "a", "c", "k", "s">>, <<"B", "l", "i", "n", "k", "i", "t">>, <<"B", "r", "a", "n", "d">>, <<"c", "h", "i", "p", "s">>, <<"2", "0">>>>,
    <<<<"J", "u", "l">>, <<"S", "o", "u", "t", "h">>, <<"S", "n", "a", "c", "k", "s">>, <<"Z", "e", "p", "t", "o">>, <<"G", "e", "n", "e", "r", "i", "c">>, <<"s", "w", "e", "e", "t", "s">>, <<"4", "0">>>>,
    <<<<"M", "a", "y">>, NA, <<"S", "n", "a", "c", "k", "s">>, <<"B", "l", "i", "n", "k", "i", "t">>, <<"B", "r", "a", "n", "d">>, <<"c", "h", "i", "p", "s">>, <<"5", "0">>>>,
    <<<<"A", "p", "r">>, <<"N", "o", "r", "t", "h">>, <<"S", "n", "a", "c", "k", "s">>, <<"B", "l", "i", "n", "k", "i", "t">>, <<"B", "r", "a", "n", "d">>, <<"c", "h", "i", "p", "s">>, <<"1", "0">>>> >>

\* observations that differ in every filter dimension
FilterTable == <<
    <<<<"A", "p", "r">>, <<"N", "o", "r", "t", "h">>, <<"S", "n", "a", "c", "k", "s">>, <<"B", "l", "i", "n", "k", "i", "t">>, <<"B", "r", "a", "n", "d">>, <<"c", "h", "i", "p", "s">>, <<"1", "0", "%">>>>,
    <<<<"M", "a", "y">>, <<"S", "o", "u", "t", "h">>, <<"S", "w", "e", "e", "t", "s">>, <<"Z", "e", "p", "t", "o">>, <<"B", "r", "a", "n", "d">>, <<"n", "a", "m", "k", "e", "e", "n">>, <<"2", "0", "%">>>>,
    <<<<"J", "u", "n">>, <<"E", "a", "s", "t">>, <<"S", "w", "e", "e", "t", "s">>, <<"I", "n", "s", "t", "a", "m", "a", "r", "t">>, <<"G", "e", "n", "e", "r", "i", "c">>, <<"m", "i", "x", "t", "u", "r", "e">>, <<"3", "0", "%">>>>,
    <<<<"J", "u", "l">>, <<"S", "o", "u", "t", "h">>, NA, <<"B", "l", "i", "n", "k", "i", "t">>, <<"B", "r", "a", "n", "d">>, <<"c", "h", "i", "p", "s">>, <<"4", "0", "%">>>> >>

MaxRows == 3

MaxAggRows == 4

MaxInteractions == 2

----------------------------------------------------------------------------
(* The script run, the session and the memoised loaders *)

\* nothing unpacked yet in this run
NotLoaded == [LoadRaised EXCEPT !.raised = FALSE]

NoT1 == [T1Raised EXCEPT !.raised = FALSE]
NoT2 == [T2Raised EXCEPT !.raised = FALSE]
NoT3 == [T3Raised EXCEPT !.raised = FALSE]

\* nothing rendered yet in this run
NoOut == [t1 |-> NoT1, t2 |-> NoT2, t3 |-> NoT3]

\* the widgets' values before any interaction: the defaults of lines 255 and
\* 280, empty elsewhere
DefaultSel ==
    [t1_region |-> {}, t1_category |-> {}, t1_platform |-> {},
     t2_region |-> {}, t2_category |-> {}, t2_kwtype |-> {Brand},
     t2_keywords |-> {}, t2_kw_options |-> {}, t2_metrics |-> {"Volume Share"},
     t3_region |-> {}, t3_category |-> {}]

Widgets ==
    {"t1_region", "t1_category", "t1_platform", "t2_region", "t2_category",
     "t2_kwtype", "t2_keywords", "t2_metrics", "t3_region", "t3_category"}

\* the loader called afresh in every run
uncached_load_data(store, f) == load_data(f)

\* lines 19-20: st.cache_data on a function without parameters. The entry is
\* keyed by the function and its (empty) argument list; f, the sheet on disk,
\* is read only when there is no entry
cached_load_data(store, f) == IF store # <<>> THEN store[1] ELSE load_data(f)

\* lines 332-333
cached_load_brand_strength(store, f) ==
    IF store # <<>> THEN store[1] ELSE load_brand_strength(f)

\* a call that raised stores nothing
Stored(store, r) == IF store = <<>> /\ ~r.raised THEN <<r>> ELSE store

\* line 109
RunLoad ==
    /\ pc = "start"
    /\ cur' = cached_load_data(cache, file)
    /\ cache' = Stored(cache, cur')
    /\ pc' = IF cur'.raised THEN "error" ELSE "tab1"
    /\ UNCHANGED <<file, bsfile, bscache, sel, out, nact>>

\* lines 124-229
Tab1 ==
    /\ pc = "tab1"
    /\ \E o \in tab1(cur, sel) :
          /\ out' = [out EXCEPT !.t1 = o]
          /\ pc' = IF o.raised THEN "error" ELSE "tab2"
    /\ UNCHANGED <<file, bsfile, cache, bscache, cur, sel, nact>>

\* lines 234-326
Tab2 ==
    /\ pc = "tab2"
    /\ \E o \in tab2(cur, sel) :
          /\ out' = [out EXCEPT !.t2 = o]
          /\ sel' = IF o.raised THEN sel
                    ELSE [sel EXCEPT !.t2_keywords = o.selected_keywords,
                                     !.t2_kw_options = o.kw_choices]
          /\ pc' = IF o.raised THEN "error" ELSE "tab3"
    /\ UNCHANGED <<file, bsfile, cache, bscache, cur, nact>>

\* lines 370-425
Tab3 ==
    /\ pc = "tab3"
    /\ LET b == cached_load_brand_strength(bscache, bsfile)
       IN  /\ bscache' = Stored(bscache, b)
           /\ \E o \in tab3(b, sel) :
                 /\ out' = [out EXCEPT !.t3 = o]
                 /\ pc' = IF o.raised THEN "error" ELSE "done"
    /\ UNCHANGED <<file, bsfile, cache, cur, sel, nact>>

\* the script is run again from the top with the widgets as they are
Rerun ==
    /\ pc \in {"done", "error"}
    /\ pc' = "start"
    /\ cur' = NotLoaded
    /\ out' = NoOut
    /\ UNCHANGED <<file, bsfile, cache, bscache, sel, nact>>

\* the options widget w offered in the run that just completed
Options(w) ==
    LET cols == cur.df.columns
        b == bscache[1]
    IN  CASE w \in {"t1_region", "t2_region"} -> UniqueVals(cols, cur.df.rows, cur.region_col)
          [] w \in {"t1_category", "t2_category"} -> UniqueVals(cols, cur.df.rows, cur.category_col)
          [] w = "t1_platform" -> UniqueVals(cols, cur.df.rows, cur.platform_col)
          [] w = "t2_kwtype" -> UniqueVals(cols, cur.df.rows, cur.keyword_type_col)
          [] w = "t2_keywords" -> out.t2.kw_choices
          [] w = "t2_metrics" -> SetOfSeq(MetricNames)
          [] w = "t3_region" -> UniqueVals(b.df.columns, b.df.rows, b.region_col)
          [] w = "t3_category" -> UniqueVals(b.df.columns, b.df.rows, b.category_col)

\* the user adds a value to a multiselect or removes one; the script reruns
Interact ==
    /\ pc = "done"
    /\ nact < MaxInteractions
    /\ \E w \in Widgets : \E v \in Options(w) :
          sel' = [sel EXCEPT ![w] = IF v \in @ THEN @ \ {v} ELSE @ \cup {v}]
    /\ nact' = nact + 1
    /\ pc' = "start"
    /\ cur' = NotLoaded
    /\ out' = NoOut
    /\ UNCHANGED <<file, bsfile, cache, bscache>>

\* the marketing sheet on disk is replaced between two runs of the script
FileChange ==
    /\ pc \in {"done", "error"}
    /\ \E I \in Picks(FilterTable, MaxRows) :
          /\ file' = MarketingSheet(SubTable(FilterTable, I, 1))
          /\ file' # file
    /\ UNCHANGED <<bsfile, cache, bscache, pc, cur, sel, out, nact>>

\* a server process starts on the sheets f and b: nothing memoised, no widget
\* touched
InitSheets(f, b) ==
    /\ file = f
    /\ bsfile = b
    /\ cache = <<>>
    /\ bscache = <<>>
    /\ pc = "start"
    /\ cur = NotLoaded
    /\ sel = DefaultSel
    /\ out = NoOut
    /\ nact = 0

InitWith(obs) == InitSheets(MarketingSheet(obs), BrandStrengthSheet(obs))

\* a session on sheets holding up to MaxRows of the sample observations
Init == \E I \in Picks(SampleTable, MaxRows) : InitWith(SubTable(SampleTable, I, 1))

Next == RunLoad \/ Tab1 \/ Tab2 \/ Tab3 \/ Rerun

Spec == Init /\ [][Next]_vars

\* a session in which the user works the filters, on sheets holding
\* observations that differ in every filter dimension
InitUI == \E I \in Picks(FilterTable, MaxRows) : InitWith(SubTable(FilterTable, I, 1))

NextUI == Next \/ Interact

SpecUI == InitUI /\ [][NextUI]_vars

----------------------------------------------------------------------------
(* Properties of the canonical table *)

\* the canonical table: what load_data returned and st.cache_data keeps
Canonical == cache[1].df

CanonicalCell(k, c) == Cell(Canonical.columns, Canonical.rows[k], c)

\* the sheet's cell in row k under the header at position j
SheetCell(k, j) == file.rows[k][j]

\* a cell text in which one of the twelve abbreviations occurs
NamesAMonth(v) ==
    v # NA /\ \E i \in 1..Len(month_map) : Contains(month_map[i].k, str_lower(v))

\* a cell text that, trimmed and lower-cased, is a platform name or an alias
NamesAPlatform(v) ==
    v # NA /\ str_lower(str_strip(v)) \in
                 {s_blinkit, s_instamart, s_zepto, s_instagram, s_insta_mart}

\* C1 as stated: every row of the canonical table has MonthNum in 4..9 and a
\* platform among Blinkit, Instamart, Zepto.
C1_Original ==
    cache # <<>> =>
        \A k \in 1..Len(Canonical.rows) :
            /\ CanonicalCell(k, MonthNumCol) \in 4..9
            /\ CanonicalCell(k, cache[1].platform_col) \in {Blinkit, Instamart, Zepto}

\* C1 amended: every row of the canonical table has MonthNum in 4..12 (April
\* onwards, no upper bound short of December) and a platform among Blinkit,
\* Instamart, Zepto; the table holds no more rows than the sheet has rows
\* whose month cell names a month and whose platform cell names a platform.
C1_Canonical ==
    cache # <<>> =>
        /\ \A k \in 1..Len(Canonical.rows) :
              /\ CanonicalCell(k, MonthNumCol) \in 4..12
              /\ CanonicalCell(k, cache[1].platform_col) \in {Blinkit, Instamart, Zepto}
        /\ Len(Canonical.rows) <=
              Cardinality({k \in 1..Len(file.rows) :
                              NamesAMonth(SheetCell(k, 1)) /\ NamesAPlatform(SheetCell(k, 4))})

\* a loaded table that kept an October row and lost another row of the sheet
C1_Witness ==
    /\ cache # <<>>
    /\ \E k \in 1..Len(Canonical.rows) : CanonicalCell(k, MonthNumCol) = 10
    /\ Len(Canonical.rows) < Len(file.rows)

\* a keyword cell that equals "all" but for the case of its letters
EqualsAllIgnoringCase(v) ==
    /\ v # NA
    /\ Len(v) = 3
    /\ v[1] \in {"a", "A"} /\ v[2] \in {"l", "L"} /\ v[3] \in {"l", "L"}

\* C5: no row of the canonical table has a keyword that case-insensitively
\* equals "all", and a sheet holding such rows loads to fewer rows than it has.
C5_NoAllKeyword ==
    cache # <<>> =>
        /\ \A k \in 1..Len(Canonical.rows) :
              ~EqualsAllIgnoringCase(CanonicalCell(k, cache[1].keyword_col))
        /\ (\E k \in 1..Len(file.rows) : EqualsAllIgnoringCase(SheetCell(k, 6)))
              => Len(Canonical.rows) < Len(file.rows)

\* a loaded sheet with an "ALL" row whose month and platform are in range, and
\* another row that stayed
C5_Witness ==
    /\ cache # <<>>
    /\ \E k \in 1..Len(file.rows) :
          /\ EqualsAllIgnoringCase(SheetCell(k, 6))
          /\ SheetCell(k, 6) # p_all
          /\ parse_month(SheetCell(k, 1)) >= 4
          /\ NamesAPlatform(SheetCell(k, 4))
    /\ Canonical.rows # <<>>

----------------------------------------------------------------------------
(* Properties of the dataset filter *)

\* row r has, in every dimension <<column, selection>> of dims with a
\* non-empty selection, a value of the selection
Passes(columns, r, dims) ==
    \A d \in dims : d[2] = {} \/ Cell(columns, r, d[1]) \in d[2]

\* the rows of a frame that pass, in the frame's order
Restricted(frame, dims) ==
    SelectSeq(frame.rows, LAMBDA r : Passes(frame.columns, r, dims))

\* C6: the table each view filters is exactly the rows of the canonical table
\* whose value is in the selection for every dimension with a non-empty
\* selection, an empty selection restricts nothing, and a run ends in an
\* exception only where the keyword-type default "Brand" is no option, never
\* because a selection matched no row.
C6_Filter ==
    /\ pc \in {"tab2", "tab3", "done"} =>
          out.t1.filtered =
              Restricted(cur.df, {<<cur.region_col, sel.t1_region>>,
                                  <<cur.category_col, sel.t1_category>>,
                                  <<cur.platform_col, sel.t1_platform>>})
    /\ pc \in {"tab3", "done"} =>
          out.t2.filtered =
              Restricted(cur.df, {<<cur.region_col, sel.t2_region>>,
                                  <<cur.category_col, sel.t2_category>>,
                                  <<cur.keyword_type_col, sel.t2_kwtype>>,
                                  <<cur.keyword_col, out.t2.selected_keywords>>})
    /\ pc = "done" =>
          out.t3.filtered =
              Restricted(bscache[1].df, {<<bscache[1].region_col, sel.t3_region>>,
                                         <<bscache[1].category_col, sel.t3_category>>})
    /\ pc = "error" =>
          Brand \notin UniqueVals(cur.df.columns, cur.df.rows, cur.keyword_type_col)

\* a completed run in which two non-empty selections of the first view, each
\* matching rows of a non-empty table, together match none
C6_Witness ==
    /\ pc = "done"
    /\ sel.t1_region # {} /\ sel.t1_platform # {} /\ sel.t1_category = {}
    /\ cur.df.rows # <<>>
    /\ out.t1.filtered = <<>>
    /\ out.t2.filtered # <<>>

----------------------------------------------------------------------------
(* Properties of the trend aggregator *)

\* a session on sheets holding up to MaxAggRows observations of the months
\* April to July, some of them sharing a (month, region) pair
InitAgg == \E I \in Picks(AggTable, MaxAggRows) : InitWith(SubTable(AggTable, I, 1))

SpecAgg == InitAgg /\ [][Next]_vars

\* the sum of column c over the rows of a frame at the positions K
RECURSIVE SumAt(_, _, _, _)
SumAt(columns, rows, c, K) ==
    IF K = {} THEN 0
    ELSE LET k == CHOOSE x \in K : TRUE
         IN  Cell(columns, rows[k], c) + SumAt(columns, rows, c, K \ {k})

\* the fraction q is the arithmetic mean of column c over the positions K
IsMeanAt(q, columns, rows, c, K) ==
    q.den > 0 /\ q.num * Cardinality(K) = q.den * SumAt(columns, rows, c, K)

\* the positions of the rows the first view filtered that have keyword type kw
T1Rows(kw) ==
    {k \in 1..Len(out.t1.filtered) :
        Cell(cur.df.columns, out.t1.filtered[k], cur.keyword_type_col) = kw}

T1MonthNum(k) == Cell(cur.df.columns, out.t1.filtered[k], MonthNumCol)

\* C7: the benchmark of each keyword type's chart is the arithmetic mean of
\* Volume Share over exactly the rows with MonthNum 4, 5 or 6, and 0 when there
\* is none; rows of month 7 or later do not enter it (the shares 10, 20, 30 of
\* April, May, June with 99 of July give 20).
C7_Benchmark ==
    pc \in {"tab2", "tab3", "done"} =>
        /\ \A n \in 1..Len(out.t1.charts) :
              LET ch == out.t1.charts[n]
                  q1 == {k \in T1Rows(ch.kw_type) : T1MonthNum(k) \in {4, 5, 6}}
              IN  IF q1 = {} THEN ch.benchmark.num = 0
                  ELSE IsMeanAt(ch.benchmark, cur.df.columns, out.t1.filtered,
                                cur.metrics["Volume Share"], q1)
        /\ file = MarketingSheet(SubTable(AggTable, {1, 2, 3, 4}, 1)) =>
              /\ Len(out.t1.charts) = 1
              /\ out.t1.charts[1].benchmark.num = 20 * out.t1.charts[1].benchmark.den

\* the first view rendered the sheet of the example: April 10, May 20, June 30
\* and July 99
C7_Witness ==
    /\ pc = "done"
    /\ file = MarketingSheet(SubTable(AggTable, {1, 2, 3, 4}, 1))
    /\ Len(out.t1.filtered) = 4
    /\ out.t1.charts[1].benchmark = [num |-> 60, den |-> 3]

\* t is sorted by ascending MonthNum
AscendingByMonth(t) ==
    \A i \in 1..Len(t), j \in 1..Len(t) : i < j => t[i].MonthNum <= t[j].MonthNum

\* t is the series of column val over the rows at positions K of a frame,
\* keyed by column key: one tuple per (month, key) pair present, carrying the
\* mean over all rows of the pair
IsSeriesOf(t, columns, rows, key, val, K) ==
    LET pairs == {<<Cell(columns, rows[k], MonthNumCol), Cell(columns, rows[k], key)>> :
                     k \in {j \in K : Cell(columns, rows[j], key) # NA}}
        of(p) == {k \in K : /\ Cell(columns, rows[k], MonthNumCol) = p[1]
                            /\ Cell(columns, rows[k], key) = p[2]}
    IN  /\ Len(t) = Cardinality(pairs)
        /\ \A p \in pairs :
              \E i \in 1..Len(t) :
                 /\ t[i].MonthNum = p[1] /\ t[i].key = p[2]
                 /\ t[i].MonthName = month_name(p[1])
                 /\ IsMeanAt(t[i].value, columns, rows, val, of(p))
        /\ AscendingByMonth(t)

\* the positions of the rows the third view filtered that are of platform p
T3Rows(p) ==
    {k \in 1..Len(out.t3.filtered) :
        Cell(bscache[1].df.columns, out.t3.filtered[k], bscache[1].platform_col) = p}

\* C8: every trend the first and the third view draw holds exactly one tuple
\* per (month, region) pair of its rows, with the arithmetic mean of the metric
\* over all rows of the pair, repeated rows included, and is sorted by
\* ascending MonthNum.
C8_Series ==
    /\ pc \in {"tab2", "tab3", "done"} =>
          \A n \in 1..Len(out.t1.charts) :
              IsSeriesOf(out.t1.charts[n].trend, cur.df.columns, out.t1.filtered,
                         cur.region_col, cur.metrics["Volume Share"],
                         T1Rows(out.t1.charts[n].kw_type))
    /\ pc = "done" =>
          \A ch \in out.t3.charts :
              IsSeriesOf(ch.trend, bscache[1].df.columns, out.t3.filtered,
                         bscache[1].region_col, bscache[1].bs_col, T3Rows(ch.platform))

\* a trend of three tuples over four rows, two of which share April and North
\* with different shares, and two regions within June
C8_Witness ==
    /\ pc = "done"
    /\ file = MarketingSheet(SubTable(AggTable, {1, 3, 5, 6}, 1))
    /\ \E n \in 1..Len(out.t1.charts) :
          LET t == out.t1.charts[n].trend
          IN  /\ Len(t) = 3
              /\ t[1].value = [num |-> 35, den |-> 2]
              /\ t[2].MonthNum = 6 /\ t[3].MonthNum = 6
    /\ \E ch \in out.t3.charts : Len(ch.trend) = 3

----------------------------------------------------------------------------
(* Unresolved columns *)

\* the sheets of SpecUI, whole or with one column missing
InitCols ==
    \E I \in Picks(FilterTable, MaxRows) :
       \E h \in SetOfSeq(MarketingHeader) \cup {NoCol} :
          InitSheets(DropColumn(MarketingSheet(SubTable(FilterTable, I, 1)), h),
                     BrandStrengthSheet(SubTable(FilterTable, I, 1)))

SpecCols == InitCols /\ [][Next]_vars

\* C3: a run of the script raises only when a required column (month,
\* platform, keyword, region) is unresolved, or the keyword-type default is no
\* option; with only optional roles (category, keyword type, a metric)
\* unresolved it completes.
C3_OptionalRolesAbsent ==
    pc = "error" =>
        \/ cur.raised
        \/ cur.keyword_col = NoCol
        \/ cur.region_col = NoCol
        \/ /\ cur.keyword_type_col # NoCol
           /\ Brand \notin UniqueVals(cur.df.columns, cur.df.rows, cur.keyword_type_col)

----------------------------------------------------------------------------
(* Memoisation *)

\* a server process during which the marketing sheet may be replaced
InitCache == \E I \in Picks(FilterTable, MaxRows) : InitWith(SubTable(FilterTable, I, 1))

NextCache == Next \/ FileChange

SpecCache == InitCache /\ [][NextCache]_vars

\* C9 as stated: every run of the script works on the dataset built from the
\* sheet's content at that run.
C9_Original ==
    [][(pc = "start" /\ pc' # "start") => cur' = load_data(file)]_vars

\* C9 amended: the dataset is built from the sheet once, by the first call of
\* load_data that returns; from then on the memoised tuple never changes and
\* every run works on it, whatever the sheet's content has become.
C9_BuiltOnce ==
    [][/\ (cache = <<>> /\ pc = "start" /\ pc' # "start") => cur' = load_data(file)
       /\ (cache = <<>> /\ cache' # <<>>) => cache' = <<load_data(file)>>
       /\ cache # <<>> =>
             /\ cache' = cache
             /\ (pc = "start" /\ pc' # "start") => cur' = cache[1]]_vars

\* a run that works on the memoised dataset after the sheet was replaced by
\* one that loads differently
C9_Witness ==
    /\ pc = "tab1"
    /\ cache # <<>>
    /\ cur = cache[1]
    /\ cur # load_data(file)

----------------------------------------------------------------------------
(* One cell at a time: sheets of a single row in which one cell varies *)

\* the observation the single row holds besides the varying cell
BaseObs == <<<<"A", "p", "r">>, <<"N", "o", "r", "t", "h">>, <<"S", "n", "a", "c", "k", "s">>, <<"B", "l", "i", "n", "k", "i", "t">>, <<"B", "r", "a", "n", "d">>, <<"c", "h", "i", "p", "s">>, <<"1", "0", "%">>>>

\* BaseObs with cell j replaced by v
ObsWith(j, v) == [BaseObs EXCEPT ![j] = v]

\* all texts of at most n characters over the alphabet A
RECURSIVE Texts(_, _)
Texts(A, n) ==
    IF n = 0 THEN {<<>>}
    ELSE Texts(A, n - 1) \cup {Append(t, c) : t \in Texts(A, n - 1), c \in A}

MaxCellLen == 3

\* the characters metric cells are built from
MetricAlphabet == {"0", "1", "5", "-", "%", "N"}

\* metric cells of the sheets' usual forms
MetricSamples == {
    <<"4", "5", "%">>,
    <<"N", "/", "A">>,
    <<"1", "5", "0", "%">>,
    <<"-", "5", "%">>,
    <<"0", "7", "%">>,
    <<"+", "1", "2">> }

MetricCells == Texts(MetricAlphabet, MaxCellLen) \cup MetricSamples

InitMetric == \E v \in MetricCells : InitWith(<<ObsWith(7, v)>>)

SpecMetric == InitMetric /\ [][Next]_vars

\* t without its "%" characters
WithoutPercent(t) == SelectSeq(t, LAMBDA c : c # "%")

\* d is a non-empty run of decimal digits
IsDigitRun(d) == d # <<>> /\ \A i \in 1..Len(d) : d[i] \in SetOfSeq(Digits)

\* the decimal digits of the natural number n
RECURSIVE Decimal(_)
Decimal(n) ==
    IF n < 10 THEN <<Digits[n + 1]>> ELSE Append(Decimal(n \div 10), Digits[(n % 10) + 1])

\* d without its leading zeros, the last digit kept
RECURSIVE NoLeadingZeros(_)
NoLeadingZeros(d) ==
    IF Len(d) > 1 /\ Head(d) = "0" THEN NoLeadingZeros(Tail(d)) ELSE d

\* the number v is what the text t denotes: t is a digit run, possibly signed,
\* and v written out in decimal is that run
Denotes(t, v) ==
    LET signed == t # <<>> /\ Head(t) \in {"-", "+"}
        d == IF signed THEN Tail(t) ELSE t
    IN  /\ IsDigitRun(d)
        /\ Decimal(IF v < 0 THEN 0 - v ELSE v) = NoLeadingZeros(d)
        /\ v < 0 => (signed /\ Head(t) = "-")
        /\ (signed /\ Head(t) = "-") => v <= 0

\* the text of a sheet cell as the conversions see it
CellText(v) == IF v \in na_values \/ v = NA THEN nan ELSE v

\* the stored Volume Share of the single row
StoredShare == CanonicalCell(1, cache[1].metrics["Volume Share"])

\* C2 as stated: every metric value of the canonical table lies in [0,100].
C2_Original ==
    cache # <<>> => \A k \in 1..Len(Canonical.rows) : StoredShare \in 0..100

\* C2 amended: the stored metric value is the number the cell denotes once
\* every "%" character is removed, whatever its sign or size, and 0 when what
\* remains denotes no number (a missing cell, "", "N/A").
C2_Metric ==
    cache # <<>> =>
        /\ Len(Canonical.rows) = 1
        /\ LET t == WithoutPercent(CellText(SheetCell(1, 7)))
           IN  IF \E s \in {<<>>, <<"-">>, <<"+">>} :
                     \E d \in {SubSeq(t, Len(s) + 1, Len(t))} :
                        IsDigitRun(d) /\ t = s \o d
               THEN Denotes(t, StoredShare)
               ELSE StoredShare = 0
        /\ SheetCell(1, 7) = <<"4", "5", "%">> => StoredShare = 45
        /\ SheetCell(1, 7) \in {<<>>, <<"N", "/", "A">>} => StoredShare = 0

\* the cell "150%" loaded as 150
C2_Witness ==
    /\ pc = "done"
    /\ SheetCell(1, 7) = <<"1", "5", "0", "%">>
    /\ StoredShare = 150

----------------------------------------------------------------------------
(* Platform cells *)

\* platform names, their aliases and near misses, in lower case
PlatformWords == {
    <<"b", "l", "i", "n", "k", "i", "t">>,
    <<"i", "n", "s", "t", "a", "m", "a", "r", "t">>,
    <<"z", "e", "p", "t", "o">>,
    <<"i", "n", "s", "t", "a", "g", "r", "a", "m">>,
    <<"i", "n", "s", "t", "a", "-", "m", "a", "r", "t">>,
    <<"i", "n", "s", "t", "a", " ", "m", "a", "r", "t">>,
    <<"i", "n", "s", "t", "a", "m", "a", "r", "t", "s">>,
    <<"a", "m", "a", "z", "o", "n">>,
    <<"z", "e", "p", "t", "o", "-">>,
    <<"b", "l", "i", "n", "k", " ", "i", "t">>,
    <<"i", "n", "s", "t", "a">>,
    <<"n", "a", "n">>,
    <<>>,
    <<"s", "w", "i", "g", "g", "y", " ", "i", "n", "s", "t", "a", "m", "a", "r", "t">> }

\* every other letter of w in upper case
Alternating(w) ==
    [i \in 1..Len(w) |-> IF i % 2 = 1 THEN UpperChar(w[i]) ELSE LowerChar(w[i])]

Casings(w) == {w, str_upper(w), str_title(w), Alternating(w)}

Paddings(w) == {w, <<" ">> \o w, w \o <<" ">>, <<" ", " ">> \o w \o <<" ">>}

PlatformCells == UNION {UNION {Paddings(c) : c \in Casings(w)} : w \in PlatformWords}

InitPlatform == \E v \in PlatformCells : InitWith(<<ObsWith(4, v)>>)

SpecPlatform == InitPlatform /\ [][Next]_vars

\* a and b are the same text but for the case of their letters
SameIgnoringCase(a, b) ==
    /\ Len(a) = Len(b)
    /\ \A i \in 1..Len(a) :
          \/ a[i] = b[i]
          \/ \E n \in 1..Len(Lowers) : {a[i], b[i]} = {Lowers[n], Uppers[n]}

\* v is the word w in some spelling: any case, blanks around it
Spells(v, w) ==
    \E i \in 1..(Len(v) + 1), j \in 0..Len(v) :
        /\ \A n \in 1..Len(v) : (n < i \/ n > j) => v[n] = " "
        /\ SameIgnoringCase(SubSeq(v, i, j), w)

\* the platform cell of the single row, as read from the sheet
PlatformCell == IF SheetCell(1, 4) \in na_values THEN NA ELSE SheetCell(1, 4)

\* C4: normalisation sends every spelling of "instagram" and "insta-mart" to
\* Instamart, every spelling of a platform name to its display form (so a
\* canonical value to itself), every other value to missing; normalising the
\* result again returns it, and the result is Blinkit, Instamart, Zepto or
\* missing. The row is in the canonical table exactly when the result is not
\* missing, and load_brand_strength stores the same result.
C4_Platform ==
    LET x == PlatformCell
        t == CellText(x)
        n == normalize_platform(x)
    IN  /\ n \in {Blinkit, Instamart, Zepto, NA}
        /\ normalize_platform(n) = n
        /\ (Spells(t, s_instagram) \/ Spells(t, s_insta_mart)) => n = Instamart
        /\ \A c \in {Blinkit, Instamart, Zepto} : Spells(t, c) => n = c
        /\ (\A w \in {s_instagram, s_insta_mart, s_blinkit, s_instamart, s_zepto} :
               ~Spells(t, w)) => n = NA
        /\ cache # <<>> =>
              IF n = NA THEN Canonical.rows = <<>>
              ELSE /\ Len(Canonical.rows) = 1
                   /\ CanonicalCell(1, cache[1].platform_col) = n
        /\ bscache # <<>> =>
              /\ Len(bscache[1].df.rows) = 1
              /\ Cell(bscache[1].df.columns, bscache[1].df.rows[1],
                      bscache[1].platform_col) = n

\* the cell " INSTAGRAM" with blanks around it, loaded as Instamart by both
\* loaders
C4_Witness ==
    /\ pc = "done"
    /\ SheetCell(1, 4) = <<" ", " ">> \o str_upper(s_instagram) \o <<" ">>
    /\ CanonicalCell(1, cache[1].platform_col) = Instamart
    /\ Cell(bscache[1].df.columns, bscache[1].df.rows[1], bscache[1].platform_col)
          = Instamart

----------------------------------------------------------------------------
(* Month cells *)

\* the month names
MonthWords == <<
    <<"J", "a", "n", "u", "a", "r", "y">>,
    <<"F", "e", "b", "r", "u", "a", "r", "y">>,
    <<"M", "a", "r", "c", "h">>,
    <<"A", "p", "r", "i", "l">>,
    <<"M", "a", "y">>,
    <<"J", "u", "n", "e">>,
    <<"J", "u", "l", "y">>,
    <<"A", "u", "g", "u", "s", "t">>,
    <<"S", "e", "p", "t", "e", "m", "b", "e", "r">>,
    <<"O", "c", "t", "o", "b", "e", "r">>,
    <<"N", "o", "v", "e", "m", "b", "e", "r">>,
    <<"D", "e", "c", "e", "m", "b", "e", "r">> >>

\* the display labels, by ordinal
MonthLabels == <<
    <<"J", "a", "n">>,
    <<"F", "e", "b">>,
    <<"M", "a", "r">>,
    <<"A", "p", "r">>,
    <<"M", "a", "y">>,
    <<"J", "u", "n">>,
    <<"J", "u", "l">>,
    <<"A", "u", "g">>,
    <<"S", "e", "p">>,
    <<"O", "c", "t">>,
    <<"N", "o", "v">>,
    <<"D", "e", "c">> >>

\* month cells that name no month, or name one by accident
OtherMonthTexts == {
    <<"x", "y", "z">>,
    <<"Q", "1", " ", "2", "0", "2", "4">>,
    <<"S", "u", "m", "m", "a", "r", "y">>,
    <<"2", "0", "2", "4", "-", "0", "4">>,
    <<"M", "o", "n", "d", "a", "y">>,
    <<"A", "p", " ", "r">>,
    <<>> }

s_2024 == <<"-", "2", "0", "2", "4">>

\* month cells: a name in several casings, a name with a year, two labels
\* joined, and texts that are no month
MonthCells ==
    UNION {Casings(MonthWords[i]) \cup {MonthWords[i] \o s_2024, MonthLabels[i]} :
              i \in 1..Len(MonthWords)}
    \cup {MonthLabels[i] \o <<"-">> \o MonthLabels[j] :
              i \in 1..Len(MonthLabels), j \in 1..Len(MonthLabels)}
    \cup OtherMonthTexts

InitMonth == \E v \in MonthCells : InitWith(<<ObsWith(1, v)>>)

SpecMonth == InitMonth /\ [][Next]_vars

\* the abbreviation of ordinal i occurs in v, in any case
Occurs(i, v) ==
    \E n \in 0..(Len(v) - 3) :
        \A j \in 1..3 :
            v[n + j] \in {month_map[i].k[j], UpperTable[month_map[i].k[j]]}

\* the month cell of the single row, as the parser sees it
MonthText == CellText(SheetCell(1, 1))

\* C10: the ordinal of a month text is that of the first abbreviation, in the
\* order jan..dec, that occurs in it in any case, the label is that
\* abbreviation title-cased, and a text in which none occurs has no ordinal;
\* load_data and load_brand_strength agree, a row without ordinal is in neither
\* table ("April-2024" gives 4 and "Apr", "xyz" gives no row).
C10_Month ==
    LET n == parse_month(IF SheetCell(1, 1) \in na_values THEN NA ELSE SheetCell(1, 1))
    IN  /\ n \in 0..12
        /\ n = 0 <=> \A i \in 1..12 : ~Occurs(i, MonthText)
        /\ n # 0 => Occurs(n, MonthText) /\ \A i \in 1..(n - 1) : ~Occurs(i, MonthText)
        /\ bs_parse_month(IF SheetCell(1, 1) \in na_values THEN NA ELSE SheetCell(1, 1)) = n
        /\ n # 0 => month_name(n) = MonthLabels[n]
        /\ cache # <<>> =>
              IF n >= 4
              THEN /\ Len(Canonical.rows) = 1
                   /\ CanonicalCell(1, MonthNumCol) = n
                   /\ CanonicalCell(1, MonthNameCol) = MonthLabels[n]
              ELSE Canonical.rows = <<>>
        /\ bscache # <<>> =>
              IF n >= 4
              THEN /\ Len(bscache[1].df.rows) = 1
                   /\ Cell(bscache[1].df.columns, bscache[1].df.rows[1], MonthNumCol) = n
                   /\ Cell(bscache[1].df.columns, bscache[1].df.rows[1], MonthNameCol)
                         = MonthLabels[n]
              ELSE bscache[1].df.rows = <<>>
        /\ (SheetCell(1, 1) = MonthWords[4] \o s_2024 /\ cache # <<>>) =>
              /\ CanonicalCell(1, MonthNumCol) = 4
              /\ CanonicalCell(1, MonthNameCol) = <<"A", "p", "r">>
        /\ (SheetCell(1, 1) = <<"x", "y", "z">> /\ cache # <<>>) => Canonical.rows = <<>>

\* "Dec-Apr" loaded with ordinal 4 and label "Apr" by both loaders: the order
\* of the abbreviations decides, not the place in the text
C10_Witness ==
    /\ pc = "done"
    /\ SheetCell(1, 1) = MonthLabels[12] \o <<"-">> \o MonthLabels[4]
    /\ CanonicalCell(1, MonthNumCol) = 4
    /\ CanonicalCell(1, MonthNameCol) = MonthLabels[4]
    /\ Cell(bscache[1].df.columns, bscache[1].df.rows[1], MonthNumCol) = 4

====
